---- MODULE Spec2Model ----
(***************************************************************************)
(* Model of the exact-uniform combination sampling engine of               *)
(* yourbench/utils/dataset_engine.py:                                       *)
(*   _unrank_comb, _floyd_sample_indices, _sample_exact_combinations and    *)
(*   create_cross_document_dataset.                                         *)
(*                                                                          *)
(* The functions run as one call stack: `stack` names the active calls,     *)
(* `pc` the position in the innermost one.  The random source is a          *)
(* nondeterministic choice at every draw; rngDraws counts the draws.  When  *)
(* the function is run twice on the same inputs, the draws of each run are  *)
(* recorded, and the generator seeded as in the first run repeats its       *)
(* outputs for as long as the second run makes the same calls.              *)
(***************************************************************************)
EXTENDS Integers, Sequences, FiniteSets, TLC

VARIABLES
  pc,            \* position in the innermost active call
  stack,         \* active calls, outermost first
  raised,        \* the exception that left the outermost call, or "none"
  rngDraws,      \* number of draws made from the random source
  u_n, u_k,      \* _unrank_comb driver: universe size and subset size
  u_rank,        \* _unrank_comb driver: next rank to unrank
  u_table,       \* _unrank_comb driver: results for ranks 0, 1, ... so far
  total,         \* _floyd_sample_indices: total
  sample_size,   \* _floyd_sample_indices: sample_size
  j,             \* _floyd_sample_indices: loop variable
  chosen,        \* _floyd_sample_indices: the set built so far
  floyd_result,  \* value returned by _floyd_sample_indices, or "none"
  objects,       \* _sample_exact_combinations: objects
  k,             \* _sample_exact_combinations: k
  N,             \* _sample_exact_combinations: N
  ranks,         \* _sample_exact_combinations: the set returned by Floyd
  combos,        \* _sample_exact_combinations: combos built so far
  combo_idxs,    \* history: the idxs behind each element of combos
  sample_result, \* value returned by _sample_exact_combinations, or "none"
  stage_cfg,     \* create_cross_document_dataset: stage_cfg
  dataset,       \* create_cross_document_dataset: dataset
  docs,          \* create_cross_document_dataset: docs
  cross_rows,    \* create_cross_document_dataset: cross_rows
  num_docs_to_combine,  \* create_cross_document_dataset: the group size
  doc_combinations,     \* create_cross_document_dataset: doc_combinations
  gi,            \* number of elements of doc_combinations processed
  asm_result,    \* rows of the Dataset returned, or "none"
  run,           \* 0: a single run; 1, 2: the first, second of two runs
  rng_trace,     \* runs 1 and 2: the calls made to the generator, with outputs
  first_run      \* run 2: the seed, the rng_trace and the outcome of run 1

vars == <<pc, stack, raised, rngDraws, u_n, u_k, u_rank, u_table,
          total, sample_size, j, chosen, floyd_result,
          objects, k, N, ranks, combos, combo_idxs, sample_result,
          stage_cfg, dataset, docs, cross_rows, num_docs_to_combine,
          doc_combinations, gi, asm_result, run, rng_trace, first_run>>

unrankVars == <<u_n, u_k, u_rank, u_table>>
floydVars == <<total, sample_size, j, chosen, floyd_result>>
samplerVars == <<objects, k, N, ranks, combos, combo_idxs, sample_result>>
asmVars == <<stage_cfg, dataset, docs, cross_rows, num_docs_to_combine,
             doc_combinations, gi, asm_result>>
runVars == <<run, rng_trace, first_run>>

---------------------------------------------------------------------------
(* Bounds of the model.                                                    *)

\* largest universe size n handed to the _unrank_comb driver
MaxN == 6
\* largest total handed to _floyd_sample_indices when it is called directly
MaxTotal == 4
\* largest number of objects handed to _sample_exact_combinations when it is
\* called directly
MaxObjects == 4
\* create_cross_document_dataset, varied scenarios: largest number of rows,
\* largest number of rows of a dataset holding a row with several valid
\* chunks, largest min_docs, largest chunks_per_document, and largest
\* max_combinations below the number of combinations there are
MaxRows == 4
MaxRichRows == 3
MaxMinDocs == 3
MaxChunksPerDoc == 3
MaxComb == 2
\* create_cross_document_dataset, scenarios asking for every combination:
\* largest number of rows and largest min_docs
FullRows == 6
FullMinDocs == 4
\* create_cross_document_dataset run twice: largest number of rows and
\* largest max_combinations
MaxReplayRows == 3
MaxReplayComb == 2

---------------------------------------------------------------------------
(* Helpers.                                                                *)

Range(s) == {s[i] : i \in 1..Len(s)}

Reverse(s) == [i \in 1..Len(s) |-> s[Len(s) + 1 - i]]

RECURSIVE Factorial(_)
Factorial(m) == IF m <= 0 THEN 1 ELSE m * Factorial(m - 1)

\* math.comb(n, k) for n, k >= 0: exact, 0 when k > n
RECURSIVE comb(_, _)
comb(n, kk) ==
  IF kk > n THEN 0
  ELSE IF kk = 0 THEN 1
  ELSE (comb(n - 1, kk - 1) * n) \div kk

\* the sequence listing a finite set of integers in ascending order
RECURSIVE SortedSeq(_)
SortedSeq(S) ==
  IF S = {} THEN <<>>
  ELSE LET m == CHOOSE x \in S : \A y \in S : x <= y
       IN <<m>> \o SortedSeq(S \ {m})

---------------------------------------------------------------------------
(* Binary floating point, as Python's float (IEEE 754 double) computes      *)
(* `a / b`, `x * c` and `int(x)` for integers 0 < a <= b < 46341 and        *)
(* 0 < c < 8192.  A float is [m |-> its 53 significand bits, most            *)
(* significant first, e |-> exponent]: the number (m in binary) * 2^e.       *)

\* width of the significand of a double
SignificandBits == 53

RECURSIVE BitsToInt(_)
BitsToInt(bits) ==
  IF bits = <<>> THEN 0
  ELSE 2 * BitsToInt(SubSeq(bits, 1, Len(bits) - 1)) + bits[Len(bits)]

IntToBits(v, width) == [i \in 1..width |-> (v \div (2 ^ (width - i))) % 2]

StripZeros(bits) ==
  IF \A i \in 1..Len(bits) : bits[i] = 0 THEN <<>>
  ELSE LET f == CHOOSE i \in 1..Len(bits) :
                  bits[i] = 1 /\ \A h \in 1..(i - 1) : bits[h] = 0
       IN SubSeq(bits, f, Len(bits))

\* bits + 1; the result is one bit longer when every bit was 1
BitsIncrement(bits) ==
  IF \A i \in 1..Len(bits) : bits[i] = 1
  THEN <<1>> \o [i \in 1..Len(bits) |-> 0]
  ELSE LET z == CHOOSE i \in 1..Len(bits) :
                  bits[i] = 0 /\ \A h \in (i + 1)..Len(bits) : bits[h] = 1
       IN [i \in 1..Len(bits) |-> IF i < z THEN bits[i] ELSE IF i = z THEN 1 ELSE 0]

\* the exact product of a significand and c, no leading zeros: the
\* significand is multiplied limb by limb, carries moving upwards
BitsTimes(bits, c) ==
  LET LimbBits == 18
      B == 2 ^ LimbBits
      padded == [i \in 1..(3 * LimbBits - Len(bits)) |-> 0] \o bits
      hi == BitsToInt(SubSeq(padded, 1, LimbBits))
      mid == BitsToInt(SubSeq(padded, LimbBits + 1, 2 * LimbBits))
      lo == BitsToInt(SubSeq(padded, 2 * LimbBits + 1, 3 * LimbBits))
      p3 == lo * c
      p2 == mid * c + p3 \div B
      p1 == hi * c + p2 \div B
  IN StripZeros(IntToBits(p1 \div B, LimbBits) \o IntToBits(p1 % B, LimbBits)
                \o IntToBits(p2 % B, LimbBits) \o IntToBits(p3 % B, LimbBits))

\* round-to-nearest, ties-to-even, of a bit string to SignificandBits bits:
\* `exact` says whether nothing nonzero follows the bits given
FloatRound(bits, e, exact) ==
  IF Len(bits) <= SignificandBits
  THEN [m |-> bits \o [i \in 1..(SignificandBits - Len(bits)) |-> 0],
        e |-> e - (SignificandBits - Len(bits))]
  ELSE LET kept == SubSeq(bits, 1, SignificandBits)
           dropped == SubSeq(bits, SignificandBits + 1, Len(bits))
           guard == dropped[1]
           sticky == (\E i \in 2..Len(dropped) : dropped[i] = 1) \/ ~exact
           up == guard = 1 /\ (sticky \/ kept[SignificandBits] = 1)
           e2 == e + Len(dropped)
           inc == BitsIncrement(kept)
       IN IF ~up THEN [m |-> kept, e |-> e2]
          ELSE IF Len(inc) > SignificandBits
               THEN [m |-> SubSeq(inc, 1, SignificandBits), e |-> e2 + 1]
               ELSE [m |-> inc, e |-> e2]

\* the smallest s >= 0 with a * 2^s >= b
RECURSIVE FloatShift(_, _)
FloatShift(a, b) == IF a >= b THEN 0 ELSE 1 + FloatShift(2 * a, b)

\* 2^i mod b, by squaring
RECURSIVE PowMod2(_, _)
PowMod2(i, b) ==
  IF i = 0 THEN 1 % b
  ELSE LET h == PowMod2(i \div 2, b)
       IN IF i % 2 = 0 THEN (h * h) % b ELSE (((h * h) % b) * 2) % b

\* long division of rem / b for 0 <= rem < b: the remainder before bit i of
\* the quotient is rem * 2^(i-1) mod b, and bit i says whether twice that
\* remainder reaches b
FloatDivRem(rem, b, i) == (rem * PowMod2(i - 1, b)) % b
FloatDivBit(rem, b, i) == IF 2 * FloatDivRem(rem, b, i) >= b THEN 1 ELSE 0

\* a / b for integers 0 < a <= b: the correctly rounded quotient
FloatDiv(a, b) ==
  LET s == FloatShift(a, b)
      x == a * (2 ^ s)
      \* the leading 1, SignificandBits - 1 further bits and the guard bit
      bits == <<1>> \o [i \in 1..SignificandBits |-> FloatDivBit(x - b, b, i)]
      exact == FloatDivRem(x - b, b, SignificandBits + 1) = 0
  IN FloatRound(bits, -(s + SignificandBits), exact)

\* x * c for a float x > 0 and an integer c > 0: the correctly rounded product
FloatTimes(x, c) == FloatRound(BitsTimes(x.m, c), x.e, TRUE)

\* int(x) for a float x > 0 below 2^31: truncation
FloatToInt(x) ==
  IF x.e >= 0 THEN BitsToInt(x.m) * (2 ^ x.e)
  ELSE IF -x.e >= SignificandBits THEN 0
  ELSE BitsToInt(SubSeq(x.m, 1, SignificandBits + x.e))

---------------------------------------------------------------------------
(* _unrank_comb                                                            *)

\* the binary search of one digit: largest c in [lo, hi] with C(c, i) <= rank
RECURSIVE UnrankSearch(_, _, _, _)
UnrankSearch(lo, hi, i, rank) ==
  IF lo < hi
  THEN LET mid == (lo + hi + 1) \div 2
       IN IF comb(mid, i) <= rank
          THEN UnrankSearch(mid, hi, i, rank)
          ELSE UnrankSearch(lo, mid - 1, i, rank)
  ELSE lo

\* a search that stops one short of the ceiling (hi = n - 2 in place of n - 1)
UnrankDigitShort(i, n, rank) == UnrankSearch(i - 1, n - 2, i, rank)

\* a search that keeps the smallest candidate (never moves lo)
UnrankDigitLow(i, n, rank) == i - 1

\* the digit chosen for position i under ceiling n
UnrankDigit(i, n, rank) == UnrankSearch(i - 1, n - 1, i, rank)

\* the loop `for i in range(k, 0, -1)`; combo is built largest digit first
RECURSIVE UnrankLoop(_, _, _, _)
UnrankLoop(i, n, rank, combo) ==
  IF i = 0 THEN combo
  ELSE LET lo == UnrankDigit(i, n, rank)
       IN UnrankLoop(i - 1, lo, rank - comb(lo, i), Append(combo, lo))

\* the whole function: [err |-> TRUE] stands for the ValueError
_unrank_comb(n, kk, rank) ==
  IF ~(0 <= kk /\ kk <= n) THEN [err |-> TRUE, combo |-> <<>>]
  ELSE IF ~(0 <= rank /\ rank < comb(n, kk)) THEN [err |-> TRUE, combo |-> <<>>]
  ELSE [err |-> FALSE, combo |-> Reverse(UnrankLoop(kk, n, rank, <<>>))]

---------------------------------------------------------------------------
(* The random generator.  create_cross_document_dataset builds it from      *)
(* random_seed (line 484) and hands it down (lines 525, 402); its outputs   *)
(* are a function of the seed and of the calls made so far.                 *)

\* line 428: int(stage_cfg.get("random_seed", 42))
random_seed(cfg) == IF "random_seed" \in DOMAIN cfg THEN cfg.random_seed ELSE 42

\* the value of first_run before a first run has ended
NoRun == [seed |-> 0, trace |-> <<>>, raised |-> "none", result |-> <<>>]

SameCall(entry, fn, args) == entry.fn = fn /\ entry.args = args

\* the calls made so far in this run, and their outputs, are those the first
\* run began with
InStep ==
  /\ Len(rng_trace) <= Len(first_run.trace)
  /\ \A i \in 1..Len(rng_trace) :
       /\ SameCall(first_run.trace[i], rng_trace[i].fn, rng_trace[i].args)
       /\ first_run.trace[i].value = rng_trace[i].value

\* a generator that is not seeded from random_seed: any output, every time
RngOutputsUnseeded(fn, args, possible) == possible

\* the outputs the generator can give to the call fn(*args): any of
\* `possible`, except that a generator seeded as in the first run, and asked
\* the same calls, answers this one as it did then
RngOutputs(fn, args, possible) ==
  IF /\ run = 2
     /\ first_run.seed = random_seed(stage_cfg)
     /\ InStep
     /\ Len(rng_trace) < Len(first_run.trace)
     /\ SameCall(first_run.trace[Len(rng_trace) + 1], fn, args)
  THEN {first_run.trace[Len(rng_trace) + 1].value}
  ELSE possible

\* rng_trace after the call fn(*args) gave `value`
Traced(fn, args, value) ==
  IF run = 0 THEN rng_trace
  ELSE Append(rng_trace, [fn |-> fn, args |-> args, value |-> value])

---------------------------------------------------------------------------
(* _floyd_sample_indices                                                   *)

\* a Floyd step that never falls back to j
FloydPickNoFallback(ch, t, jj) == t

\* a Floyd step that falls back to the smallest free value instead of j
FloydPickSmallest(ch, t, jj) ==
  IF t \notin ch THEN t ELSE CHOOSE x \in 0..jj : x \notin ch /\ \A y \in 0..jj : y \notin ch => x <= y

\* the element added in one iteration: `t if t not in chosen else j`
FloydPick(ch, t, jj) == IF t \notin ch THEN t ELSE jj

\* the values rng.randrange(0, j + 1) can return
FloydDraws(jj) == 0..jj

\* where control goes when the innermost call returns
Caller == IF Len(stack) > 1 THEN stack[Len(stack) - 1] ELSE "none"
Pop == SubSeq(stack, 1, Len(stack) - 1)

\* a ValueError raised in the innermost call.  The only handler is the
\* `except ValueError` of lines 524-528 around the call of
\* _sample_exact_combinations; anywhere else the error leaves the program.
RaiseValueError ==
  IF Len(stack) > 1 /\ stack[1] = "create_cross_document_dataset"
  THEN /\ pc' = "asm_except"
       /\ stack' = <<"create_cross_document_dataset">>
       /\ UNCHANGED raised
  ELSE /\ pc' = "raised" /\ raised' = "ValueError" /\ stack' = <<>>

\* lines 371-376: the size check, then the empty set and the first j
FloydEnter ==
  /\ pc = "floyd_enter"
  /\ IF sample_size > total
     THEN /\ RaiseValueError
          /\ UNCHANGED <<j, chosen>>
     ELSE /\ pc' = "floyd_loop"
          /\ chosen' = {}
          /\ j' = total - sample_size
          /\ UNCHANGED <<raised, stack>>
  /\ UNCHANGED <<rngDraws, total, sample_size, floyd_result, unrankVars, samplerVars,
                 asmVars>>
  /\ UNCHANGED runVars

\* lines 377-379: one iteration of the loop
FloydStep ==
  /\ pc = "floyd_loop"
  /\ j < total
  /\ \E t \in RngOutputs("randrange", <<0, j + 1>>, FloydDraws(j)) :
       /\ chosen' = chosen \cup {FloydPick(chosen, t, j)}
       /\ rng_trace' = Traced("randrange", <<0, j + 1>>, t)
  /\ j' = j + 1
  /\ rngDraws' = rngDraws + 1
  /\ UNCHANGED <<pc, stack, raised, total, sample_size, floyd_result, unrankVars,
                 samplerVars, asmVars, run, first_run>>

\* line 380: return chosen, to the caller when there is one
FloydReturn ==
  /\ pc = "floyd_loop"
  /\ j >= total
  /\ floyd_result' = chosen
  /\ stack' = Pop
  /\ IF Caller = "_sample_exact_combinations"
     THEN /\ pc' = "sample_loop"
          /\ ranks' = chosen
          /\ combos' = <<>>
          /\ combo_idxs' = <<>>
     ELSE /\ pc' = "done"
          /\ UNCHANGED <<ranks, combos, combo_idxs>>
  /\ UNCHANGED <<raised, rngDraws, total, sample_size, j, chosen, unrankVars,
                 objects, k, N, sample_result, asmVars>>
  /\ UNCHANGED runVars

\* the result of the loop for a given sequence of draws, one per iteration
RECURSIVE FloydRun(_, _, _, _)
FloydRun(jj, tot, draws, ch) ==
  IF jj >= tot THEN ch
  ELSE FloydRun(jj + 1, tot, Tail(draws), ch \cup {FloydPick(ch, Head(draws), jj)})

\* every sequence of draws the loop can see: t_j in [0, j], j = T-S .. T-1
RECURSIVE DrawSeqs(_, _)
DrawSeqs(jj, tot) ==
  IF jj >= tot THEN {<<>>}
  ELSE {<<t>> \o d : t \in FloydDraws(jj), d \in DrawSeqs(jj + 1, tot)}

---------------------------------------------------------------------------
(* Driver of _unrank_comb: calls it for rank = u_rank, u_rank + 1, ...      *)
(* until it raises.                                                         *)

UnrankCall ==
  /\ pc = "unrank_call"
  /\ LET r == _unrank_comb(u_n, u_k, u_rank)
     IN IF r.err
        THEN /\ pc' = "raised" /\ raised' = "ValueError" /\ stack' = <<>>
             /\ UNCHANGED <<u_rank, u_table>>
        ELSE /\ u_table' = Append(u_table, r.combo)
             /\ u_rank' = u_rank + 1
             /\ UNCHANGED <<pc, raised, stack>>
  /\ UNCHANGED <<rngDraws, u_n, u_k, floydVars, samplerVars, asmVars>>
  /\ UNCHANGED runVars

InitUnrank ==
  /\ pc = "unrank_call" /\ stack = <<"_unrank_comb">> /\ raised = "none"
  /\ rngDraws = 0
  /\ u_n \in 0..MaxN /\ u_k \in -1..(MaxN + 1)
  /\ u_rank \in {-1, 0} /\ u_table = <<>>
  /\ total = 0 /\ sample_size = 0 /\ j = 0 /\ chosen = {} /\ floyd_result = "none"
  /\ objects = <<>> /\ k = 0 /\ N = 0 /\ ranks = {} /\ combos = <<>>
  /\ combo_idxs = <<>> /\ sample_result = "none"
  /\ stage_cfg = <<>> /\ dataset = <<>> /\ docs = <<>> /\ cross_rows = <<>>
  /\ num_docs_to_combine = 0 /\ doc_combinations = <<>> /\ gi = 0
  /\ asm_result = "none"
  /\ run = 0 /\ rng_trace = <<>> /\ first_run = NoRun

NextUnrank == UnrankCall

SpecUnrank == InitUnrank /\ [][NextUnrank]_vars

---------------------------------------------------------------------------
(* _floyd_sample_indices called directly.                                   *)

InitFloyd ==
  /\ pc = "floyd_enter" /\ stack = <<"_floyd_sample_indices">> /\ raised = "none"
  /\ rngDraws = 0
  /\ u_n = 0 /\ u_k = 0 /\ u_rank = 0 /\ u_table = <<>>
  /\ total \in 0..MaxTotal /\ sample_size \in -1..(MaxTotal + 1)
  /\ j = 0 /\ chosen = {} /\ floyd_result = "none"
  /\ objects = <<>> /\ k = 0 /\ N = 0 /\ ranks = {} /\ combos = <<>>
  /\ combo_idxs = <<>> /\ sample_result = "none"
  /\ stage_cfg = <<>> /\ dataset = <<>> /\ docs = <<>> /\ cross_rows = <<>>
  /\ num_docs_to_combine = 0 /\ doc_combinations = <<>> /\ gi = 0
  /\ asm_result = "none"
  /\ run = 0 /\ rng_trace = <<>> /\ first_run = NoRun

NextFloyd == FloydEnter \/ FloydStep \/ FloydReturn

SpecFloyd == InitFloyd /\ [][NextFloyd]_vars

---------------------------------------------------------------------------
(* _sample_exact_combinations                                               *)

\* the order in which `for r in ranks` visits the set: the order of the
\* hash slots, which for the small non-negative integers of a rank set is
\* ascending
SetIterOrder(S) == SortedSeq(S)

\* a size check that lets N = total + 1 through
SampleTooManyOffByOne(n, kk, NN) == NN > comb(n, kk) + 1

\* a size check that also refuses N = total
SampleTooManyAtLimit(n, kk, NN) == NN >= comb(n, kk)

\* a size check that is never true
SampleTooManyNever(n, kk, NN) == FALSE

\* line 397: `N > total` with total = math.comb(n, k)
SampleTooMany(n, kk, NN) == NN > comb(n, kk)

\* a mapping back to objects that reads one position too low
SampleMapShifted(objs, idxs) ==
  [p \in 1..Len(idxs) |-> objs[IF idxs[p] = 0 THEN 1 ELSE idxs[p]]]

\* line 406: [objects[i] for i in idxs]; index i is position i + 1 here
SampleMap(objs, idxs) == [p \in 1..Len(idxs) |-> objs[idxs[p] + 1]]

\* lines 393-402: the checks, then the call of _floyd_sample_indices
SampleEnter ==
  /\ pc = "sample_enter"
  /\ LET n == Len(objects)
     IN IF ~(0 <= k /\ k <= n) \/ SampleTooMany(n, k, N)
        THEN /\ RaiseValueError
             /\ UNCHANGED <<total, sample_size>>
        ELSE /\ total' = comb(n, k)
             /\ sample_size' = N
             /\ stack' = Append(stack, "_floyd_sample_indices")
             /\ pc' = "floyd_enter"
             /\ UNCHANGED raised
  /\ UNCHANGED <<rngDraws, j, chosen, floyd_result, unrankVars, samplerVars, asmVars>>
  /\ UNCHANGED runVars

\* lines 404-406: one iteration of `for r in ranks`
SampleStep ==
  /\ pc = "sample_loop"
  /\ Len(combos) < Cardinality(ranks)
  /\ LET r == SetIterOrder(ranks)[Len(combos) + 1]
         res == _unrank_comb(Len(objects), k, r)
     IN IF res.err
        THEN /\ RaiseValueError
             /\ UNCHANGED <<combos, combo_idxs>>
        ELSE /\ combos' = Append(combos, SampleMap(objects, res.combo))
             /\ combo_idxs' = Append(combo_idxs, res.combo)
             /\ UNCHANGED <<pc, raised, stack>>
  /\ UNCHANGED <<rngDraws, floydVars, unrankVars, objects, k, N, ranks, sample_result,
                 asmVars>>
  /\ UNCHANGED runVars

\* line 407: return combos, to the caller when there is one (line 525)
SampleReturn ==
  /\ pc = "sample_loop"
  /\ Len(combos) >= Cardinality(ranks)
  /\ sample_result' = combos
  /\ stack' = Pop
  /\ IF Caller = "create_cross_document_dataset"
     THEN /\ pc' = "asm_group"
          /\ doc_combinations' = combos
          /\ gi' = 0
     ELSE /\ pc' = "done"
          /\ UNCHANGED <<doc_combinations, gi>>
  /\ UNCHANGED <<raised, rngDraws, floydVars, unrankVars, objects, k, N, ranks,
                 combos, combo_idxs, stage_cfg, dataset, docs, cross_rows,
                 num_docs_to_combine, asm_result>>
  /\ UNCHANGED runVars

\* the object sequences of the direct calls: n objects, all different, or with
\* the first two equal
ObjectSeq(n, dup) ==
  [p \in 1..n |-> IF dup /\ p = 2 THEN "obj1" ELSE
                  <<"obj1", "obj2", "obj3", "obj4", "obj5", "obj6">>[p]]

InitSampler ==
  /\ pc = "sample_enter" /\ stack = <<"_sample_exact_combinations">>
  /\ raised = "none" /\ rngDraws = 0
  /\ u_n = 0 /\ u_k = 0 /\ u_rank = 0 /\ u_table = <<>>
  /\ total = 0 /\ sample_size = 0 /\ j = 0 /\ chosen = {} /\ floyd_result = "none"
  /\ \E n \in 0..MaxObjects, dup \in BOOLEAN : objects = ObjectSeq(n, dup)
  /\ k \in -1..(MaxObjects + 1)
  /\ N \in -1..(comb(MaxObjects, MaxObjects \div 2) + 2)
  /\ ranks = {} /\ combos = <<>> /\ combo_idxs = <<>> /\ sample_result = "none"
  /\ stage_cfg = <<>> /\ dataset = <<>> /\ docs = <<>> /\ cross_rows = <<>>
  /\ num_docs_to_combine = 0 /\ doc_combinations = <<>> /\ gi = 0
  /\ asm_result = "none"
  /\ run = 0 /\ rng_trace = <<>> /\ first_run = NoRun

NextSampler == SampleEnter \/ FloydEnter \/ FloydStep \/ FloydReturn \/ SampleStep \/ SampleReturn

SpecSampler == InitSampler /\ [][NextSampler]_vars

---------------------------------------------------------------------------
(* Strings.  A str is the sequence of its characters; a character is the    *)
(* string that names it ("U+03B1" is the Greek small letter alpha).         *)

\* the characters of the model for which str.isalnum() is true: ASCII
\* letters and digits, and the letters and digits beyond ASCII
AsciiAlnum == {"0", "1", "2", "3", "4", "5", "6", "7", "8", "9",
               "D", "N", "a", "b", "c", "d", "e", "n", "o"}
UnicodeAlnum == {"U+03B1"}

isalnum(c) == c \in AsciiAlnum \cup UnicodeAlnum

\* ord(c): the code point, which is what str comparison goes by
ord(c) ==
  CASE c = " " -> 32 [] c = "!" -> 33 [] c = "#" -> 35 [] c = "-" -> 45
    [] c = "/" -> 47
    [] c = "0" -> 48 [] c = "1" -> 49 [] c = "2" -> 50 [] c = "3" -> 51
    [] c = "4" -> 52 [] c = "5" -> 53 [] c = "6" -> 54 [] c = "7" -> 55
    [] c = "8" -> 56 [] c = "9" -> 57
    [] c = "D" -> 68 [] c = "N" -> 78 [] c = "_" -> 95
    [] c = "a" -> 97 [] c = "b" -> 98 [] c = "c" -> 99 [] c = "d" -> 100
    [] c = "e" -> 101 [] c = "n" -> 110 [] c = "o" -> 111
    [] c = "U+03B1" -> 945

\* s < t for two str: the first difference decides, a proper prefix is smaller
RECURSIVE StrLess(_, _)
StrLess(s, t) ==
  IF t = <<>> THEN FALSE
  ELSE IF s = <<>> THEN TRUE
  ELSE IF Head(s) # Head(t) THEN ord(Head(s)) < ord(Head(t))
  ELSE StrLess(Tail(s), Tail(t))

\* sorted(strs) for a list of str: insertion from the left, equal elements
\* keeping their order
RECURSIVE SortInsert(_, _)
SortInsert(sorted_strs, s) ==
  IF sorted_strs = <<>> THEN <<s>>
  ELSE IF StrLess(s, Head(sorted_strs)) THEN <<s>> \o sorted_strs
  ELSE <<Head(sorted_strs)>> \o SortInsert(Tail(sorted_strs), s)

RECURSIVE sorted(_)
sorted(strs) ==
  IF strs = <<>> THEN <<>>
  ELSE SortInsert(sorted(SubSeq(strs, 1, Len(strs) - 1)), strs[Len(strs)])

\* sep.join(strs)
RECURSIVE join(_, _)
join(sep, strs) ==
  IF strs = <<>> THEN <<>>
  ELSE IF Len(strs) = 1 THEN strs[1]
  ELSE strs[1] \o sep \o join(sep, Tail(strs))

\* str(v) for an integer v >= 0
RECURSIVE StrOfInt(_)
StrOfInt(v) ==
  LET digit == <<"0", "1", "2", "3", "4", "5", "6", "7", "8", "9">>[(v % 10) + 1]
  IN IF v < 10 THEN <<digit>> ELSE Append(StrOfInt(v \div 10), digit)

\* s.strip() is not empty: some character of s is no whitespace
StripsToNonEmpty(s) == \E i \in 1..Len(s) : s[i] # " "

---------------------------------------------------------------------------
(* create_cross_document_dataset                                            *)
(*                                                                          *)
(* stage_cfg is [max_combinations, chunks_per_document,                     *)
(* num_docs_per_combination |-> [is_list, items]], each item [is_int, val], *)
(* and random_seed when the key is given.                                   *)
(* dataset is [has_multihop_column, rows]; a row is [multihop_chunks], with *)
(* document_id and document_summary when it has these keys.  A document_id  *)
(* is [kind |-> "str", chars] or [kind |-> "None"]; a document_summary is a *)
(* str.  A chunk is [keys, chunk_ids, chunks_text, scalars]: keys are the   *)
(* keys it has, scalars those of them whose value is no list.               *)

Min(a, b) == IF a <= b THEN a ELSE b
Max(a, b) == IF a >= b THEN a ELSE b

\* a lower end of the range that is one too small
MinDocsOneLess(cfg) == cfg.num_docs_per_combination.items[1].val - 1

min_docs(cfg) == cfg.num_docs_per_combination.items[1].val
max_docs(cfg) == cfg.num_docs_per_combination.items[2].val

\* a validation that accepts min_docs = 1
ConfigErrorMinOne(cfg) ==
  LET r == cfg.num_docs_per_combination
  IN IF ~r.is_list \/ Len(r.items) # 2 THEN TRUE
     ELSE IF \E i \in 1..2 : ~r.items[i].is_int THEN TRUE
     ELSE IF min_docs(cfg) < 1 THEN TRUE
     ELSE IF max_docs(cfg) < min_docs(cfg) THEN TRUE
     ELSE cfg.chunks_per_document < 1

\* lines 431-445: whether validation raises ValueError
ConfigError(cfg) ==
  LET r == cfg.num_docs_per_combination
  IN IF ~r.is_list \/ Len(r.items) # 2 THEN TRUE
     ELSE IF \E i \in 1..2 : ~r.items[i].is_int THEN TRUE
     ELSE IF min_docs(cfg) < 2 THEN TRUE
     ELSE IF max_docs(cfg) < min_docs(cfg) THEN TRUE
     ELSE cfg.chunks_per_document < 1

\* a chunk filter that asks for chunk_ids only
ChunkValidIdsOnly(chunk) == "chunk_ids" \in chunk.keys

\* line 460: the chunk has both keys
ChunkValid(chunk) == \A key \in {"chunk_ids", "chunks_text"} : key \in chunk.keys

\* lines 455-461: the valid chunks of a row
ValidChunks(row) == SelectSeq(row.multihop_chunks, ChunkValid)

\* f"doc_{idx}"
DefaultDocId(idx) == <<"d", "o", "c", "_">> \o StrOfInt(idx)

\* line 464 and the str() of line 466: str(row.get("document_id", f"doc_{idx}"))
StrOfDocId(row, idx) ==
  IF "document_id" \notin DOMAIN row THEN DefaultDocId(idx)
  ELSE IF row.document_id.kind = "None" THEN <<"N", "o", "n", "e">>
  ELSE row.document_id.chars

\* line 466: the test `c.isalnum() or c in "_-"`
CleanChar(c) == isalnum(c) \/ c \in {"_", "-"}

\* lines 464-468: clean_doc_id
clean_doc_id(row, idx) ==
  LET cleaned == SelectSeq(StrOfDocId(row, idx), CleanChar)
  IN IF cleaned = <<>> THEN DefaultDocId(idx) ELSE cleaned

\* line 473: row.get("document_summary", "")
RowSummary(row) ==
  IF "document_summary" \in DOMAIN row THEN row.document_summary ELSE <<>>

\* lines 453-475: the documents built from rows idx, idx + 1, ...
RECURSIVE ExtractDocs(_, _)
ExtractDocs(rows, idx) ==
  IF idx >= Len(rows) THEN <<>>
  ELSE LET valid_chunks == ValidChunks(rows[idx + 1])
       IN (IF rows[idx + 1].multihop_chunks # <<>> /\ valid_chunks # <<>>
           THEN <<[document_id |-> clean_doc_id(rows[idx + 1], idx),
                   original_index |-> idx,
                   document_summary |-> RowSummary(rows[idx + 1]),
                   multihop_chunks |-> valid_chunks]>>
           ELSE <<>>)
          \o ExtractDocs(rows, idx + 1)

\* lines 491-493: sum of math.comb(n, g) for g in range(lo, min(hi + 1, n + 1))
RECURSIVE SumComb(_, _, _)
SumComb(n, lo, hi) ==
  IF lo >= Min(hi + 1, n + 1) THEN 0
  ELSE comb(n, lo) + SumComb(n, lo + 1, hi)

total_possible_combinations ==
  SumComb(Len(docs), min_docs(stage_cfg), max_docs(stage_cfg))

\* line 498
actual_max_combinations ==
  Min(stage_cfg.max_combinations, total_possible_combinations)

\* lines 514-515: proportion = for_size / possible;
\* max(1, int(proportion * actual_max)), in floating point
TargetForSize(for_size, possible, actual_max) ==
  Max(1, FloatToInt(FloatTimes(FloatDiv(for_size, possible), actual_max)))

\* the injective sequences of length m over 1..len
Arrangements(len, m) ==
  {f \in [1..m -> 1..len] : \A a, b \in 1..m : a # b => f[a] # f[b]}

\* a sampling that takes no chunk from any document
DocSamplesNone(doc, cpd) == {<<>>}

\* a sampling with replacement: positions may repeat
DocSamplesWithReplacement(doc, cpd) ==
  LET chunks == doc.multihop_chunks
      num_chunks_to_sample == Min(cpd, Len(chunks))
  IN {[p \in 1..num_chunks_to_sample |-> chunks[f[p]]] :
        f \in [1..num_chunks_to_sample -> 1..Len(chunks)]}

\* lines 543-547: what rng.choice / rng.sample can return for one document
DocSamples(doc, cpd) ==
  LET chunks == doc.multihop_chunks
      num_chunks_to_sample == Min(cpd, Len(chunks))
  IN IF chunks = <<>> THEN {<<>>}
     ELSE IF num_chunks_to_sample = 1
          THEN {<<chunks[i]>> : i \in 1..Len(chunks)}
          ELSE {[p \in 1..num_chunks_to_sample |-> chunks[f[p]]] :
                  f \in Arrangements(Len(chunks), num_chunks_to_sample)}

\* lines 536-549: the values sampled_chunks_from_group can end with
RECURSIVE GroupSamples(_, _)
GroupSamples(doc_group, cpd) ==
  IF doc_group = <<>> THEN {<<>>}
  ELSE {a \o b : a \in DocSamples(Head(doc_group), cpd),
                 b \in GroupSamples(Tail(doc_group), cpd)}

\* lines 559-569: the chunk_ids of the sampled chunks: a list is extended
\* by, anything else appended
RECURSIVE CombinedIds(_)
CombinedIds(sampled) ==
  IF sampled = <<>> THEN <<>>
  ELSE (IF "chunk_ids" \in Head(sampled).scalars
        THEN <<Head(sampled).chunk_ids>>
        ELSE Head(sampled).chunk_ids)
       \o CombinedIds(Tail(sampled))

\* lines 560-574: the same for chunks_text
RECURSIVE CombinedTexts(_)
CombinedTexts(sampled) ==
  IF sampled = <<>> THEN <<>>
  ELSE (IF "chunks_text" \in Head(sampled).scalars
        THEN <<Head(sampled).chunks_text>>
        ELSE Head(sampled).chunks_text)
       \o CombinedTexts(Tail(sampled))

\* lines 583-587: the summaries that are not empty after strip()
RECURSIVE DocSummaries(_)
DocSummaries(doc_group) ==
  IF doc_group = <<>> THEN <<>>
  ELSE (IF StripsToNonEmpty(Head(doc_group).document_summary)
        THEN <<Head(doc_group).document_summary>>
        ELSE <<>>)
       \o DocSummaries(Tail(doc_group))

\* lines 589-593: the header line (one element names its text), an empty
\* line, and one bullet per summary
CombinedSummary(doc_group) ==
  LET doc_summaries == DocSummaries(doc_group)
      bullets == [i \in 1..Len(doc_summaries) |-> <<"-", " ">> \o doc_summaries[i]]
  IN IF doc_summaries = <<>> THEN <<>>
     ELSE <<"Here are the summaries from the various documents involved in the chunking:",
            "\n", "\n">> \o join(<<"\n">>, bullets)

\* line 537: doc_ids_for_tracing
DocIdsForTracing(doc_group) == [i \in 1..Len(doc_group) |-> doc_group[i].document_id]

\* lines 596-600:
\* f"cross_{len(doc_group)}docs_{doc_ids_str}_chunks{chunks_per_document}"
CrossDocId(doc_group, cpd) ==
  LET doc_ids_sorted == sorted(DocIdsForTracing(doc_group))
      doc_ids_str == join(<<"_">>, doc_ids_sorted)
  IN <<"c", "r", "o", "s", "s", "_">> \o StrOfInt(Len(doc_group))
     \o <<"d", "o", "c", "s", "_">> \o doc_ids_str
     \o <<"_", "c", "h", "u", "n", "k", "s">> \o StrOfInt(cpd)

\* lines 577-618: the row appended to cross_rows; the fields of
\* cross_document_metadata are fields of the row here
CrossRow(doc_group, sampled, cpd) ==
  [ document_id |-> CrossDocId(doc_group, cpd),
    document_summary |-> CombinedSummary(doc_group),
    multihop_chunks |-> <<[chunk_ids |-> CombinedIds(sampled),
                           chunks_text |-> CombinedTexts(sampled)]>>,
    source_documents |-> sorted(DocIdsForTracing(doc_group)),
    num_source_docs |-> Len(doc_group),
    chunks_per_doc |-> cpd,
    total_chunks_sampled |-> Len(sampled),
    source_indices |->
      SortedSeq({doc_group[i].original_index : i \in 1..Len(doc_group)}) ]

\* return Dataset.from_list(rows)
AsmReturn(rows) ==
  /\ asm_result' = rows
  /\ pc' = "done"
  /\ stack' = <<>>

\* lines 425-445: read and validate the configuration
AsmConfig ==
  /\ pc = "asm_config"
  /\ IF ConfigError(stage_cfg)
     THEN RaiseValueError
     ELSE pc' = "asm_extract" /\ UNCHANGED <<raised, stack>>
  /\ UNCHANGED <<rngDraws, unrankVars, floydVars, samplerVars, asmVars>>
  /\ UNCHANGED runVars

\* lines 447-498: the column check, the documents, the check of their number
AsmExtract ==
  /\ pc = "asm_extract"
  /\ IF ~dataset.has_multihop_column
     THEN AsmReturn(<<>>) /\ UNCHANGED <<docs, num_docs_to_combine>>
     ELSE LET d == ExtractDocs(dataset.rows, 0)
          IN /\ docs' = d
             /\ IF Len(d) < min_docs(stage_cfg)
                THEN AsmReturn(<<>>) /\ UNCHANGED num_docs_to_combine
                ELSE /\ num_docs_to_combine' = min_docs(stage_cfg)
                     /\ pc' = "asm_loop"
                     /\ UNCHANGED <<stack, asm_result>>
  /\ UNCHANGED <<raised, rngDraws, unrankVars, floydVars, samplerVars,
                 stage_cfg, dataset, cross_rows, doc_combinations, gi>>
  /\ UNCHANGED runVars

\* a budget test that never stops the loop
BudgetSpentNever(remaining) == FALSE

\* line 510: `remaining_combinations <= 0`, the test of the break
BudgetSpent(remaining) == remaining <= 0

\* lines 501-525: one pass through the head of the loop over group sizes, up
\* to the call of _sample_exact_combinations
AsmLoop ==
  /\ pc = "asm_loop"
  /\ LET n == Len(docs)
         combinations_for_this_size == comb(n, num_docs_to_combine)
         remaining_combinations == actual_max_combinations - Len(cross_rows)
         target_for_this_size ==
           TargetForSize(combinations_for_this_size, total_possible_combinations,
                         actual_max_combinations)
         actual_for_this_size ==
           Min(Min(target_for_this_size, combinations_for_this_size),
               remaining_combinations)
     IN IF num_docs_to_combine >= Min(max_docs(stage_cfg) + 1, n + 1)
        THEN \* the range is exhausted
             /\ pc' = "asm_finish"
             /\ UNCHANGED <<stack, num_docs_to_combine, objects, k, N>>
        ELSE IF combinations_for_this_size = 0
        THEN \* continue
             /\ num_docs_to_combine' = num_docs_to_combine + 1
             /\ UNCHANGED <<pc, stack, objects, k, N>>
        ELSE IF BudgetSpent(remaining_combinations)
        THEN \* break
             /\ pc' = "asm_finish"
             /\ UNCHANGED <<stack, num_docs_to_combine, objects, k, N>>
        ELSE IF actual_for_this_size <= 0
        THEN \* continue
             /\ num_docs_to_combine' = num_docs_to_combine + 1
             /\ UNCHANGED <<pc, stack, objects, k, N>>
        ELSE /\ objects' = docs
             /\ k' = num_docs_to_combine
             /\ N' = actual_for_this_size
             /\ stack' = Append(stack, "_sample_exact_combinations")
             /\ pc' = "sample_enter"
             /\ UNCHANGED num_docs_to_combine
  /\ UNCHANGED <<raised, rngDraws, unrankVars, floydVars, ranks, combos, combo_idxs,
                 sample_result, stage_cfg, dataset, docs, cross_rows,
                 doc_combinations, gi, asm_result>>
  /\ UNCHANGED runVars

\* lines 531-618: one iteration of `for doc_group in doc_combinations`
AsmGroup ==
  /\ pc = "asm_group"
  /\ gi < Len(doc_combinations)
  /\ LET doc_group == doc_combinations[gi + 1]
         cpd == stage_cfg.chunks_per_document
         populations == [i \in 1..Len(doc_group) |-> doc_group[i].multihop_chunks]
     IN /\ \E sampled \in RngOutputs("choice/sample", <<populations, cpd>>,
                                     GroupSamples(doc_group, cpd)) :
             /\ cross_rows' =
                  IF Len(sampled) < Len(doc_group)
                  THEN cross_rows
                  ELSE Append(cross_rows, CrossRow(doc_group, sampled, cpd))
             /\ rng_trace' = Traced("choice/sample", <<populations, cpd>>, sampled)
        /\ rngDraws' = rngDraws +
             Cardinality({i \in 1..Len(doc_group) : doc_group[i].multihop_chunks # <<>>})
  /\ gi' = gi + 1
  /\ UNCHANGED <<pc, stack, raised, unrankVars, floydVars, samplerVars, stage_cfg,
                 dataset, docs, num_docs_to_combine, doc_combinations, asm_result,
                 run, first_run>>

\* the loop over group sizes moves on: after the last doc_group, or from the
\* `except ValueError` of lines 526-528
AsmNext ==
  /\ IF pc = "asm_except" THEN TRUE
     ELSE pc = "asm_group" /\ gi >= Len(doc_combinations)
  /\ num_docs_to_combine' = num_docs_to_combine + 1
  /\ pc' = "asm_loop"
  /\ UNCHANGED <<stack, raised, rngDraws, unrankVars, floydVars, samplerVars,
                 stage_cfg, dataset, docs, cross_rows, doc_combinations, gi,
                 asm_result>>
  /\ UNCHANGED runVars

\* lines 620-629: return the rows, or the empty Dataset
AsmFinish ==
  /\ pc = "asm_finish"
  /\ AsmReturn(cross_rows)
  /\ UNCHANGED <<raised, rngDraws, unrankVars, floydVars, samplerVars, stage_cfg,
                 dataset, docs, cross_rows, num_docs_to_combine, doc_combinations,
                 gi>>
  /\ UNCHANGED runVars

---------------------------------------------------------------------------
(* The datasets and configurations create_cross_document_dataset is run on. *)

BothKeys == {"chunk_ids", "chunks_text"}

\* the rows of the datasets: no chunk, one chunk without chunks_text, one
\* valid chunk, or two valid chunks around one without chunks_text
RowKinds == {"none", "bad", "one", "two"}

\* chunk c of row idx: chunk_ids and chunks_text are one-element lists, or
\* the element itself for the keys in `scalars`
Chunk(idx, c, keys, scalars) ==
  [keys |-> keys, scalars |-> scalars,
   chunk_ids |-> IF "chunk_ids" \in scalars THEN <<idx, c>> ELSE <<<<idx, c>>>>,
   chunks_text |-> IF "chunks_text" \in scalars THEN <<"text", idx, c>>
                   ELSE <<<<"text", idx, c>>>>]

RowOfKind(kind, idx) ==
  [multihop_chunks |->
     CASE kind = "none" -> <<>>
       [] kind = "bad" -> <<Chunk(idx, 0, {"chunk_ids"}, {})>>
       [] kind = "one" -> <<Chunk(idx, 0, BothKeys, {})>>
       [] kind = "two" -> <<Chunk(idx, 0, BothKeys, {}),
                            Chunk(idx, 1, {"chunk_ids"}, {}),
                            Chunk(idx, 2, BothKeys, {"chunks_text"})>>]

DatasetOfKinds(kinds) ==
  [has_multihop_column |-> TRUE,
   rows |-> [i \in 1..Len(kinds) |-> RowOfKind(kinds[i], i - 1)]]

\* a dataset without the multihop_chunks column: row.get gives [] for each row
DatasetWithoutColumn ==
  [has_multihop_column |-> FALSE,
   rows |-> [i \in 1..2 |-> RowOfKind("none", i - 1)]]

\* varied datasets: the first row of any kind, the second valid or not, the
\* others valid; several valid chunks only in datasets of up to MaxRichRows rows
VariedKinds ==
  UNION {{kv \in [1..n -> RowKinds] :
            /\ \A i \in 3..n : kv[i] = "one"
            /\ n >= 2 => kv[2] \in {"one", "bad"}
            /\ n > MaxRichRows => \A i \in 1..n : kv[i] # "two"} : n \in 0..MaxRows}

VariedDatasets == {DatasetOfKinds(kv) : kv \in VariedKinds} \cup {DatasetWithoutColumn}

IntItem(v) == [is_int |-> TRUE, val |-> v]
ListOf(items) == [is_list |-> TRUE, items |-> items]

\* num_docs_per_combination: not a list, a list of one or three integers, a
\* list with an element that is no integer, or [lo, hi]
MalformedRanges ==
  { [is_list |-> FALSE, items |-> <<>>],
    ListOf(<<IntItem(2)>>),
    ListOf(<<IntItem(2), IntItem(3), IntItem(4)>>),
    ListOf(<<IntItem(2), [is_int |-> FALSE, val |-> 0]>>) }

VariedRanges ==
  MalformedRanges \cup
  {ListOf(<<IntItem(lo), IntItem(hi)>>) : lo \in 1..MaxMinDocs, hi \in 1..MaxRows}

\* a max_combinations no smaller than the number of combinations of any
\* dataset of the model
AllCombinations == 2 ^ Max(MaxRows, FullRows)

VariedConfigs ==
  {[max_combinations |-> mc, chunks_per_document |-> cpd,
    num_docs_per_combination |-> r] :
     mc \in (-1..MaxComb) \cup {AllCombinations},
     cpd \in 0..MaxChunksPerDoc,
     r \in VariedRanges}

\* scenarios asking for every combination of up to FullRows valid documents
FullDatasets == {DatasetOfKinds([i \in 1..n |-> "one"]) : n \in 0..FullRows}

FullConfigs ==
  {[max_combinations |-> mc, chunks_per_document |-> 1,
    num_docs_per_combination |-> ListOf(<<IntItem(lo), IntItem(hi)>>)] :
     mc \in {AllCombinations},
     lo \in 2..FullMinDocs,
     hi \in 2..FullRows}

\* the document_id of row idx under a naming scheme:
\*   "dirty":     "Doc #1/<alpha>", "#/", "a-b_1", None
\*   "colliding": "a", "a!", "b"
\*   "separator": "a_b", "c", "a", "b_c"
\* and "n<idx>" for the rows after these
Str(chars) == [kind |-> "str", chars |-> chars]

DocumentIdOf(scheme, idx) ==
  LET named ==
        CASE scheme = "dirty" ->
               << Str(<<"D", "o", "c", " ", "#", "1", "/", "U+03B1">>),
                  Str(<<"#", "/">>),
                  Str(<<"a", "-", "b", "_", "1">>),
                  [kind |-> "None"] >>
          [] scheme = "colliding" ->
               << Str(<<"a">>), Str(<<"a", "!">>), Str(<<"b">>) >>
          [] scheme = "separator" ->
               << Str(<<"a", "_", "b">>), Str(<<"c">>), Str(<<"a">>),
                  Str(<<"b", "_", "c">>) >>
  IN IF idx < Len(named) THEN named[idx + 1] ELSE Str(<<"n">> \o StrOfInt(idx))

IdSchemes == {"dirty", "colliding", "separator"}

\* the document_summary of row idx: "a b", " ", no such key, then "s<idx>"
DescribedRow(row, scheme, idx) ==
  IF idx = 2
  THEN [document_id |-> DocumentIdOf(scheme, idx),
        multihop_chunks |-> row.multihop_chunks]
  ELSE [document_id |-> DocumentIdOf(scheme, idx),
        document_summary |->
          IF idx = 0 THEN <<"a", " ", "b">>
          ELSE IF idx = 1 THEN <<" ">>
          ELSE <<"s">> \o StrOfInt(idx),
        multihop_chunks |-> row.multihop_chunks]

DescribedDataset(kinds, scheme) ==
  [has_multihop_column |-> TRUE,
   rows |-> [i \in 1..Len(kinds) |-> DescribedRow(RowOfKind(kinds[i], i - 1), scheme, i - 1)]]

\* scenarios with document ids and summaries: every combination of up to
\* MaxRows valid documents, under each naming scheme
IdDatasets ==
  {DescribedDataset([i \in 1..n |-> "one"], scheme) :
     n \in 1..MaxRows, scheme \in IdSchemes}

IdConfigs ==
  {[max_combinations |-> AllCombinations, chunks_per_document |-> 1,
    num_docs_per_combination |-> ListOf(<<IntItem(2), IntItem(hi)>>)] :
     hi \in 2..MaxRows}

Scenarios ==
  (VariedDatasets \X VariedConfigs) \cup (FullDatasets \X FullConfigs)
  \cup (IdDatasets \X IdConfigs)

Init ==
  /\ pc = "asm_config" /\ stack = <<"create_cross_document_dataset">>
  /\ raised = "none" /\ rngDraws = 0
  /\ u_n = 0 /\ u_k = 0 /\ u_rank = 0 /\ u_table = <<>>
  /\ total = 0 /\ sample_size = 0 /\ j = 0 /\ chosen = {} /\ floyd_result = "none"
  /\ objects = <<>> /\ k = 0 /\ N = 0 /\ ranks = {} /\ combos = <<>>
  /\ combo_idxs = <<>> /\ sample_result = "none"
  /\ \E sc \in Scenarios : dataset = sc[1] /\ stage_cfg = sc[2]
  /\ docs = <<>> /\ cross_rows = <<>> /\ num_docs_to_combine = 0
  /\ doc_combinations = <<>> /\ gi = 0 /\ asm_result = "none"
  /\ run = 0 /\ rng_trace = <<>> /\ first_run = NoRun

Next ==
  \/ AsmConfig \/ AsmExtract \/ AsmLoop \/ AsmGroup \/ AsmNext \/ AsmFinish
  \/ SampleEnter \/ SampleStep \/ SampleReturn
  \/ FloydEnter \/ FloydStep \/ FloydReturn

Spec == Init /\ [][Next]_vars

---------------------------------------------------------------------------
(* create_cross_document_dataset run twice on the same dataset and the same *)
(* stage_cfg.                                                               *)

\* datasets of up to MaxReplayRows valid documents, the first with one or
\* several chunks
ReplayDatasets ==
  {DescribedDataset([i \in 1..n |-> IF i = 1 THEN first ELSE "one"], "dirty") :
     n \in 2..MaxReplayRows, first \in {"one", "two"}}

\* configurations asking for up to MaxReplayComb combinations, random_seed
\* left out or given
ReplayConfigs ==
  LET without_seed ==
        {[max_combinations |-> mc, chunks_per_document |-> cpd,
          num_docs_per_combination |-> ListOf(<<IntItem(2), IntItem(hi)>>)] :
           mc \in 1..MaxReplayComb, cpd \in 1..MaxChunksPerDoc, hi \in 2..MaxReplayRows}
  IN without_seed \cup
     {[max_combinations |-> c.max_combinations,
       chunks_per_document |-> c.chunks_per_document,
       num_docs_per_combination |-> c.num_docs_per_combination,
       random_seed |-> 7] : c \in {d \in without_seed : d.max_combinations = MaxReplayComb}}

InitTwoRuns ==
  /\ pc = "asm_config" /\ stack = <<"create_cross_document_dataset">>
  /\ raised = "none" /\ rngDraws = 0
  /\ u_n = 0 /\ u_k = 0 /\ u_rank = 0 /\ u_table = <<>>
  /\ total = 0 /\ sample_size = 0 /\ j = 0 /\ chosen = {} /\ floyd_result = "none"
  /\ objects = <<>> /\ k = 0 /\ N = 0 /\ ranks = {} /\ combos = <<>>
  /\ combo_idxs = <<>> /\ sample_result = "none"
  /\ dataset \in ReplayDatasets /\ stage_cfg \in ReplayConfigs
  /\ docs = <<>> /\ cross_rows = <<>> /\ num_docs_to_combine = 0
  /\ doc_combinations = <<>> /\ gi = 0 /\ asm_result = "none"
  /\ run = 1 /\ rng_trace = <<>> /\ first_run = NoRun

\* the first run has ended: its seed, draws and outcome are kept, and the
\* function is called again with the same dataset and the same stage_cfg
RunAgain ==
  /\ run = 1
  /\ pc \in {"done", "raised"}
  /\ first_run' = [seed |-> random_seed(stage_cfg), trace |-> rng_trace,
                   raised |-> raised,
                   result |-> IF raised = "none" THEN asm_result ELSE <<>>]
  /\ run' = 2
  /\ rng_trace' = <<>>
  /\ pc' = "asm_config" /\ stack' = <<"create_cross_document_dataset">>
  /\ raised' = "none" /\ rngDraws' = 0
  /\ total' = 0 /\ sample_size' = 0 /\ j' = 0 /\ chosen' = {}
  /\ floyd_result' = "none"
  /\ objects' = <<>> /\ k' = 0 /\ N' = 0 /\ ranks' = {} /\ combos' = <<>>
  /\ combo_idxs' = <<>> /\ sample_result' = "none"
  /\ docs' = <<>> /\ cross_rows' = <<>> /\ num_docs_to_combine' = 0
  /\ doc_combinations' = <<>> /\ gi' = 0 /\ asm_result' = "none"
  /\ UNCHANGED <<unrankVars, dataset, stage_cfg>>

NextTwoRuns == Next \/ RunAgain

SpecTwoRuns == InitTwoRuns /\ [][NextTwoRuns]_vars

---------------------------------------------------------------------------
(* Properties of _unrank_comb (checked under SpecUnrank).                   *)

\* the k-subsets of [0, n)
KSubsets(n, kk) == {s \in SUBSET (0..(n - 1)) : Cardinality(s) = kk}

StrictlyIncreasing(s) == \A i \in 1..(Len(s) - 1) : s[i] < s[i + 1]

\* a precedes b in colexicographic order: at the largest position where they
\* differ, a has the smaller element
ColexLess(a, b) ==
  \E p \in 1..Len(a) :
    /\ a[p] < b[p]
    /\ \A q \in (p + 1)..Len(a) : a[q] = b[q]

\* the driver started at rank 0 with 0 <= k <= n
UnrankValidRun == 0 <= u_k /\ u_k <= u_n /\ u_rank >= 0

\* C1: for 0 <= k <= n, rank -> _unrank_comb(n, k, rank) on [0, C(n,k)) is a
\* bijection onto the k-subsets of [0, n) written as strictly increasing
\* sequences: each result has exactly k strictly increasing indices in [0, n),
\* no two ranks give the same sequence, and once every rank has been unranked
\* the results are exactly the k-subsets of [0, n).
C1_UnrankBijection ==
  UnrankValidRun =>
    /\ \A r \in 1..Len(u_table) :
         /\ Len(u_table[r]) = u_k
         /\ StrictlyIncreasing(u_table[r])
         /\ Range(u_table[r]) \subseteq 0..(u_n - 1)
    /\ \A r1, r2 \in 1..Len(u_table) : r1 # r2 => u_table[r1] # u_table[r2]
    /\ pc = "raised" =>
         /\ Len(u_table) = Cardinality(KSubsets(u_n, u_k))
         /\ {Range(u_table[r]) : r \in 1..Len(u_table)} = KSubsets(u_n, u_k)

\* all 10 ranks of n = 5, k = 3 have been unranked
C1_Witness ==
  pc = "raised" /\ u_n = 5 /\ u_k = 3 /\ Len(u_table) = 10 /\ u_table[10] = <<2, 3, 4>>

\* C2: _unrank_comb preserves order from ranks to colex order: for r1 < r2 in
\* [0, C(n,k)) the result for r1 precedes the result for r2 in colex order.
C2_UnrankColexOrder ==
  UnrankValidRun =>
    \A r1, r2 \in 1..Len(u_table) :
      r1 < r2 => ColexLess(u_table[r1], u_table[r2])

\* all 6 ranks of n = 4, k = 2 have been unranked; ranks 2 and 3 differ in
\* their largest element
C2_Witness ==
  /\ pc = "raised" /\ u_n = 4 /\ u_k = 2 /\ Len(u_table) = 6
  /\ u_table[3] = <<1, 2>> /\ u_table[4] = <<0, 3>>

---------------------------------------------------------------------------
(* Properties of _floyd_sample_indices (checked under SpecFloyd).           *)

FloydValidArgs == 0 <= sample_size /\ sample_size <= total

\* C3: for 0 <= S <= T and every sequence of draws, the result is a set of
\* exactly S distinct integers in [0, T); after each iteration the chosen set
\* has grown by exactly one element and holds only values up to the j of that
\* iteration.
C3_FloydDistinct ==
  FloydValidArgs =>
    /\ pc = "floyd_loop" =>
         /\ Cardinality(chosen) = j - (total - sample_size)
         /\ chosen \subseteq 0..(j - 1)
    /\ pc = "done" =>
         /\ raised = "none"
         /\ Cardinality(floyd_result) = sample_size
         /\ floyd_result \subseteq 0..(total - 1)

\* a run that returned 3 of 4 values, among them the last j
C3_Witness ==
  /\ pc = "done" /\ total = 4 /\ sample_size = 3
  /\ floyd_result = {0, 1, 3} /\ rngDraws = 3

\* the number of draw sequences whose result is the set sub
FloydWays(tot, size, sub) ==
  Cardinality({d \in DrawSeqs(tot - size, tot) : FloydRun(tot - size, tot, d, {}) = sub})

\* C4: over all sequences of draws (t_j in [0, j], j = T-S .. T-1), every
\* S-subset of [0, T) is the result of exactly S! of them: none is
\* unreachable, none is favoured.
C4_FloydUniform ==
  (FloydValidArgs /\ pc = "done") =>
    /\ floyd_result \in KSubsets(total, sample_size)
    /\ \A sub \in KSubsets(total, sample_size) :
         FloydWays(total, sample_size, sub) = Factorial(sample_size)

\* a run that returned the 2-subset {1, 3} of [0, 4)
C4_Witness ==
  pc = "done" /\ total = 4 /\ sample_size = 2 /\ floyd_result = {1, 3}

---------------------------------------------------------------------------
(* Properties of _sample_exact_combinations (checked under SpecSampler).    *)

SampleValidK == 0 <= k /\ k <= Len(objects)

\* C5: for n objects, 0 <= k <= n, 0 <= N <= C(n,k) and every behaviour of
\* the random source, the call returns exactly N combinations, each the list
\* of the k objects at k distinct positions of the input, and no two
\* combinations select the same set of positions.
C5_SampleDistinct ==
  (SampleValidK /\ 0 <= N /\ N <= comb(Len(objects), k)) =>
    /\ pc # "raised"
    /\ pc = "done" =>
         /\ Len(sample_result) = N
         /\ Len(combo_idxs) = N
         /\ \A c \in 1..N :
              /\ Len(sample_result[c]) = k
              /\ Len(combo_idxs[c]) = k
              /\ Range(combo_idxs[c]) \subseteq 0..(Len(objects) - 1)
              /\ Cardinality(Range(combo_idxs[c])) = k
              /\ \A p \in 1..k : sample_result[c][p] = objects[combo_idxs[c][p] + 1]
         /\ \A c1, c2 \in 1..N :
              c1 # c2 => Range(combo_idxs[c1]) # Range(combo_idxs[c2])

\* three pairs drawn from four objects, two of which are equal
C5_Witness ==
  /\ pc = "done" /\ Len(objects) = 4 /\ objects[2] = "obj1" /\ k = 2 /\ N = 3
  /\ Len(sample_result) = 3 /\ rngDraws = 3

\* C6: when N > C(n,k) the call raises the invalid-argument error before
\* _floyd_sample_indices is entered: no combination is built or returned and
\* the random source has made no draw.
C6_SampleTooManyFailsCleanly ==
  (SampleValidK /\ N > comb(Len(objects), k)) =>
    /\ pc \in {"sample_enter", "raised"}
    /\ pc = "raised" => raised = "ValueError"
    /\ sample_result = "none"
    /\ combos = <<>>
    /\ floyd_result = "none"
    /\ rngDraws = 0

\* 7 pairs requested of the 6 that 4 objects have
C6_Witness ==
  /\ pc = "raised" /\ raised = "ValueError"
  /\ Len(objects) = 4 /\ k = 2 /\ N = 7

---------------------------------------------------------------------------
(* Properties of create_cross_document_dataset (checked under Spec).        *)

\* the configuration is malformed: num_docs_per_combination is not a list of
\* exactly two integers, or min_docs < 2, or max_docs < min_docs, or
\* chunks_per_document < 1
MalformedConfig ==
  LET r == stage_cfg.num_docs_per_combination
      two_ints == r.is_list /\ Len(r.items) = 2 /\ \A i \in 1..2 : r.items[i].is_int
  IN \/ ~two_ints
     \/ r.items[1].val < 2
     \/ r.items[2].val < r.items[1].val
     \/ stage_cfg.chunks_per_document < 1

\* the original indices of the valid documents: rows having at least one
\* chunk with both chunk_ids and chunks_text
ValidDocIndices ==
  IF ~dataset.has_multihop_column THEN {}
  ELSE {i - 1 : i \in {h \in 1..Len(dataset.rows) :
                  \E c \in 1..Len(dataset.rows[h].multihop_chunks) :
                    BothKeys \subseteq dataset.rows[h].multihop_chunks[c].keys}}

nDocs == Cardinality(ValidDocIndices)

\* C7: a malformed stage config is rejected before any sampling, whatever the
\* corpus: the only step taken is the raise of the error; no document has
\* been extracted, no draw made, no record produced, nothing returned.
C7_MalformedConfigFailsFast ==
  MalformedConfig =>
    /\ pc \in {"asm_config", "raised"}
    /\ pc = "raised" => raised = "ValueError"
    /\ rngDraws = 0
    /\ docs = <<>>
    /\ cross_rows = <<>>
    /\ asm_result = "none"

\* max_docs < min_docs rejected on a corpus that lacks the multihop_chunks
\* column
C7_Witness ==
  /\ pc = "raised" /\ raised = "ValueError"
  /\ ~dataset.has_multihop_column
  /\ stage_cfg.num_docs_per_combination = ListOf(<<IntItem(3), IntItem(2)>>)
  /\ stage_cfg.chunks_per_document = 1

\* C8: a stage config with max_combinations < 0 makes the call fail fast with
\* a configuration error before any sampling, rather than complete normally.
C8_NegativeMaxCombinationsFailsFast ==
  (stage_cfg.max_combinations < 0 /\ pc # "asm_config") =>
    (pc = "raised" /\ raised = "ValueError")

\* C9: with a valid config and fewer valid documents than min_docs, the call
\* returns an empty output, raises no error and makes no draw.
C9_TooFewDocsReturnsEmpty ==
  (~MalformedConfig /\ nDocs < stage_cfg.num_docs_per_combination.items[1].val) =>
    /\ pc \in {"asm_config", "asm_extract", "done"}
    /\ raised = "none"
    /\ rngDraws = 0
    /\ cross_rows = <<>>
    /\ pc = "done" => asm_result = <<>>

\* one valid document of two rows, min_docs = 2
C9_Witness ==
  /\ pc = "done" /\ asm_result = <<>>
  /\ dataset.has_multihop_column /\ Len(dataset.rows) = 2 /\ nDocs = 1
  /\ stage_cfg.num_docs_per_combination = ListOf(<<IntItem(2), IntItem(3)>>)
  /\ stage_cfg.chunks_per_document = 1
  /\ stage_cfg.max_combinations = AllCombinations

\* the g-subsets of the valid documents for g in [min_docs, min(max_docs, nDocs)]
ExpectedGroups ==
  LET r == stage_cfg.num_docs_per_combination.items
  IN {G \in SUBSET ValidDocIndices :
        r[1].val <= Cardinality(G) /\ Cardinality(G) <= Min(r[2].val, nDocs)}

\* C10: whenever max_combinations >= totalPossible, the run emits exactly
\* totalPossible records, one for every g-subset of the valid documents for
\* every g in [min_docs, min(max_docs, nDocs)], and none twice.
C10_EveryCombinationEmitted ==
  (/\ pc = "done"
   /\ ~MalformedConfig
   /\ stage_cfg.max_combinations >= Cardinality(ExpectedGroups)) =>
    /\ Len(asm_result) = Cardinality(ExpectedGroups)
    /\ {Range(asm_result[i].source_indices) : i \in 1..Len(asm_result)} = ExpectedGroups

---------------------------------------------------------------------------
(* Properties of two runs of create_cross_document_dataset (checked under   *)
(* SpecTwoRuns).                                                            *)

RecordIds(rows) == {rows[i].document_id : i \in 1..Len(rows)}
RecordChunks(rows) == {rows[i].multihop_chunks : i \in 1..Len(rows)}
RecordSummaries(rows) == {rows[i].document_summary : i \in 1..Len(rows)}

\* C11: two runs of create_cross_document_dataset on the same corpus, the
\* same config and the same random_seed make the same sequence of random
\* draws and end alike: the second run's draws repeat the first's one by
\* one, and when it ends it has made all of them, raised what the first
\* raised, and returned records with the same set of record ids, the same
\* set of combined chunks (chunk_ids and chunks_text) and the same set of
\* combined summaries.
C11_TwoRunsAgree ==
  run = 2 =>
    /\ InStep
    /\ pc \in {"done", "raised"} =>
         /\ Len(rng_trace) = Len(first_run.trace)
         /\ raised = first_run.raised
         /\ raised = "none" =>
              /\ RecordIds(asm_result) = RecordIds(first_run.result)
              /\ RecordChunks(asm_result) = RecordChunks(first_run.result)
              /\ RecordSummaries(asm_result) = RecordSummaries(first_run.result)

\* a second run that ended with two records of three documents, the first
\* of them with several chunks, after two draws of ranks and two of chunks
C11_Witness ==
  /\ run = 2 /\ pc = "done"
  /\ Len(dataset.rows) = 3 /\ Len(dataset.rows[1].multihop_chunks) = 3
  /\ Len(asm_result) = 2 /\ Len(rng_trace) = 4
  /\ asm_result = first_run.result
  /\ \E i \in 1..2 : asm_result[i].total_chunks_sampled = 3

---------------------------------------------------------------------------
(* Properties of the documents and records of create_cross_document_dataset *)
(* (checked under Spec).                                                    *)

\* the characters of the class [A-Za-z0-9_-]
IdClassChars ==
  {"A", "B", "C", "D", "E", "F", "G", "H", "I", "J", "K", "L", "M",
   "N", "O", "P", "Q", "R", "S", "T", "U", "V", "W", "X", "Y", "Z",
   "a", "b", "c", "d", "e", "f", "g", "h", "i", "j", "k", "l", "m",
   "n", "o", "p", "q", "r", "s", "t", "u", "v", "w", "x", "y", "z",
   "0", "1", "2", "3", "4", "5", "6", "7", "8", "9", "_", "-"}

InIdClass(c) == c \in IdClassChars

\* the row a document was built from
RowOfDoc(doc) == dataset.rows[doc.original_index + 1]

\* C12: the sanitized id of a document keeps exactly the characters of
\* [A-Za-z0-9_-] of the row's document_id, in their order, and strips every
\* other character; an id that is absent or sanitizes to the empty string is
\* replaced by "doc_{originalIndex}".  (Stated for rows whose document_id is
\* a str or absent.)
C12_SanitizedIdKeepsClassOnly ==
  \A i \in 1..Len(docs) :
    LET row == RowOfDoc(docs[i])
        absent == "document_id" \notin DOMAIN row
        kept == IF absent THEN <<>> ELSE SelectSeq(row.document_id.chars, InIdClass)
    IN (absent \/ row.document_id.kind = "str") =>
         /\ \A p \in 1..Len(docs[i].document_id) : InIdClass(docs[i].document_id[p])
         /\ docs[i].document_id =
              IF kept = <<>>
              THEN <<"d", "o", "c", "_">> \o StrOfInt(docs[i].original_index)
              ELSE kept

\* the number of chunks of row idx that have both chunk_ids and chunks_text
NumValidChunks(idx) ==
  Cardinality({c \in 1..Len(dataset.rows[idx + 1].multihop_chunks) :
                 BothKeys \subseteq dataset.rows[idx + 1].multihop_chunks[c].keys})

\* the positions of a record's combined chunk_ids that come from row idx
PositionsFrom(record, idx) ==
  {p \in 1..Len(record.multihop_chunks[1].chunk_ids) :
     record.multihop_chunks[1].chunk_ids[p][1] = idx}

RECURSIVE SumOfMin(_, _)
SumOfMin(indices, cpd) ==
  IF indices = <<>> THEN 0
  ELSE Min(cpd, NumValidChunks(Head(indices))) + SumOfMin(Tail(indices), cpd)

\* C13: for every emitted record and every document d of its group, exactly
\* min(chunks_per_document, |chunks of d|) chunks of d are in the record,
\* taken at pairwise-distinct positions of d's chunk list, also when
\* chunks_per_document exceeds |chunks of d|, and without an error; the
\* record's total_chunks_sampled is the sum over the group of
\* min(chunks_per_document, |chunks of d|).
C13_ChunksSampledPerDocument ==
  ~MalformedConfig =>
    /\ raised = "none"
    /\ \A i \in 1..Len(cross_rows) :
         LET record == cross_rows[i]
             ids == record.multihop_chunks[1].chunk_ids
             cpd == stage_cfg.chunks_per_document
         IN /\ \A p \in 1..Len(record.source_indices) :
                 LET from_d == PositionsFrom(record, record.source_indices[p])
                 IN /\ Cardinality(from_d) =
                         Min(cpd, NumValidChunks(record.source_indices[p]))
                    /\ \A a, b \in from_d : a # b => ids[a] # ids[b]
            /\ Len(ids) = record.total_chunks_sampled
            /\ Len(record.multihop_chunks[1].chunks_text) = record.total_chunks_sampled
            /\ record.total_chunks_sampled = SumOfMin(record.source_indices, cpd)

\* chunks_per_document = 3 and a document with 2 valid chunks: both are in
\* the record, beside the one chunk of the other document
C13_Witness ==
  /\ pc = "done" /\ raised = "none"
  /\ stage_cfg.chunks_per_document = 3
  /\ Len(asm_result) >= 1
  /\ asm_result[1].source_indices = <<0, 1>>
  /\ asm_result[1].multihop_chunks[1].chunk_ids = <<<<0, 2>>, <<0, 0>>, <<1, 0>>>>
  /\ asm_result[1].total_chunks_sampled = 3

\* C14: records are emitted in ascending group-size order: no record of
\* group size g comes after a record of a greater group size, and every
\* group size present lies in [min_docs, min(max_docs, nDocs)].  Stated of
\* cross_rows at every point of a run, and of the rows returned.
C14_AscendingGroupSizes ==
  ~MalformedConfig =>
    LET r == stage_cfg.num_docs_per_combination.items
    IN /\ \A a, b \in 1..Len(cross_rows) :
            a < b => cross_rows[a].num_source_docs <= cross_rows[b].num_source_docs
       /\ \A a \in 1..Len(cross_rows) :
            /\ r[1].val <= cross_rows[a].num_source_docs
            /\ cross_rows[a].num_source_docs <= Min(r[2].val, nDocs)
            /\ Len(cross_rows[a].source_indices) = cross_rows[a].num_source_docs
       /\ pc = "done" => asm_result = cross_rows

\* the three pairs of three documents, then the triple
C14_Witness ==
  /\ pc = "done" /\ Len(asm_result) = 4
  /\ \A i \in 1..3 : asm_result[i].num_source_docs = 2
  /\ asm_result[4].num_source_docs = 3
  /\ asm_result[4].source_indices = <<0, 1, 2>>

\* min(max_combinations, totalPossible)
ActualMax == Min(stage_cfg.max_combinations, Cardinality(ExpectedGroups))

\* the sampler, or a call below it, is running under the assembler
SamplingForAssembler ==
  Len(stack) > 1 /\ stack[1] = "create_cross_document_dataset"

\* C15: for a valid config with max_combinations >= 0, at every point of a
\* run the number of records emitted so far is at most
\* actualMax = min(max_combinations, totalPossible); combinations are drawn
\* and processed only while budget remains, and once the budget is spent the
\* loop over group sizes goes no further: it has stopped at the size after
\* the last record's (at min_docs when no record was due).  The rows
\* returned are at most max_combinations.
C15_BudgetNeverExceeded ==
  (~MalformedConfig /\ stage_cfg.max_combinations >= 0) =>
    /\ Len(cross_rows) <= ActualMax
    /\ SamplingForAssembler => Len(cross_rows) < ActualMax
    /\ (pc = "asm_group" /\ gi < Len(doc_combinations)) => Len(cross_rows) < ActualMax
    /\ (/\ pc \in {"asm_loop", "asm_finish", "done"}
        /\ nDocs >= stage_cfg.num_docs_per_combination.items[1].val
        /\ Len(cross_rows) >= ActualMax) =>
         num_docs_to_combine =
           IF cross_rows = <<>>
           THEN stage_cfg.num_docs_per_combination.items[1].val
           ELSE cross_rows[Len(cross_rows)].num_source_docs + 1
    /\ pc = "done" => Len(asm_result) <= stage_cfg.max_combinations

\* four documents, sizes 2 to 4, a budget of 2: one pair, one triple, and
\* the loop has stopped before size 4
C15_Witness ==
  /\ pc = "done" /\ nDocs = 4
  /\ stage_cfg.num_docs_per_combination = ListOf(<<IntItem(2), IntItem(4)>>)
  /\ stage_cfg.max_combinations = 2
  /\ Len(asm_result) = 2
  /\ asm_result[1].num_source_docs = 2 /\ asm_result[2].num_source_docs = 3
  /\ num_docs_to_combine = 4

\* C16: at every call the assembler makes to _sample_exact_combinations for
\* group size g, the arguments are the documents, 0 <= g <= nDocs and
\* 1 <= take <= C(nDocs, g); the sampler never raises inside an assembler
\* run, so the `except ValueError` branch of the loop is never taken.
C16_SamplerCallsAlwaysValid ==
  /\ (pc = "sample_enter" /\ SamplingForAssembler) =>
       /\ objects = docs
       /\ Len(objects) = nDocs
       /\ k = num_docs_to_combine
       /\ 0 <= k /\ k <= nDocs
       /\ 1 <= N /\ N <= Cardinality(KSubsets(nDocs, k))
  /\ pc # "asm_except"
  /\ ~MalformedConfig => raised = "none"

\* the call that asks for all 6 pairs of 4 documents
C16_Witness ==
  /\ pc = "sample_enter" /\ SamplingForAssembler
  /\ nDocs = 4 /\ k = 2 /\ N = 6

\* "cross_{g}docs_{ids joined by '_'}_chunks{cpd}"
RecordIdForm(g, ids, cpd) ==
  <<"c", "r", "o", "s", "s", "_">> \o StrOfInt(g) \o <<"d", "o", "c", "s", "_">>
  \o join(<<"_">>, ids) \o <<"_", "c", "h", "u", "n", "k", "s">> \o StrOfInt(cpd)

\* C17: record ids are unique within one run's output: every record id has
\* the form cross_{g}docs_{sorted sanitized ids joined by '_'}_chunks{cpd},
\* and any two different records of cross_rows (built from different
\* document combinations) have different document_id strings, whatever the
\* document ids of the corpus.
C17_RecordIdsUnique ==
  /\ \A a \in 1..Len(cross_rows) :
       cross_rows[a].document_id =
         RecordIdForm(cross_rows[a].num_source_docs, cross_rows[a].source_documents,
                      stage_cfg.chunks_per_document)
  /\ \A a, b \in 1..Len(cross_rows) :
       cross_rows[a].source_indices # cross_rows[b].source_indices =>
         cross_rows[a].document_id # cross_rows[b].document_id

\* the records of cross_rows of group size g
RecordsOfSize(g) == {i \in 1..Len(cross_rows) : cross_rows[i].num_source_docs = g}

\* C18: the discard rule never fires: every document built at ingestion has
\* at least one valid chunk, so with chunks_per_document >= 1 every record's
\* total_chunks_sampled is at least its group size, every combination
\* processed has given a record (the last gi records are those of the first
\* gi combinations of this size), and when a size is finished the number
\* of its records is the number of combinations drawn for it (take).
C18_DiscardNeverFires ==
  ~MalformedConfig =>
    /\ \A d \in 1..Len(docs) : docs[d].multihop_chunks # <<>>
    /\ \A i \in 1..Len(cross_rows) :
         cross_rows[i].total_chunks_sampled >= cross_rows[i].num_source_docs
    /\ pc = "asm_group" =>
         /\ Len(doc_combinations) = N
         /\ Cardinality(RecordsOfSize(num_docs_to_combine)) = gi
         /\ \A c \in 1..gi :
              Range(cross_rows[Len(cross_rows) - gi + c].source_indices) =
                {doc_combinations[c][p].original_index : p \in 1..Len(doc_combinations[c])}

\* all three pairs drawn from the three valid documents of four rows have
\* given a record
C18_Witness ==
  /\ pc = "asm_group" /\ Len(dataset.rows) = 4 /\ nDocs = 3
  /\ num_docs_to_combine = 2 /\ N = 3 /\ gi = 3
  /\ Len(cross_rows) = 3

====
